---- MODULE Spec2Model ----
(***************************************************************************)
(* Model of console/models/base.py: BaseRepository over one session.       *)
(*                                                                         *)
(* The session (self.db.session) is an external collaborator.  It is       *)
(* modelled by its interface: a pending set (objects added, not yet        *)
(* flushed), the rows visible inside the open transaction (txn), the       *)
(* committed rows (store), flush, commit and rollback.  The result of      *)
(* every store interaction is an input: it succeeds (only when the         *)
(* primary key constraint allows it), fails with IntegrityError or fails   *)
(* with some other error.  The schema modelled has the columns id and      *)
(* gmt_modified.                                                           *)
(*                                                                         *)
(* Specifications: Spec (one session, every Repository operation),         *)
(* SpecCount (insert_or_update and insert_or_update_batch called with an   *)
(* explicit count), SpecConc (two sessions on one store) and SpecObj       *)
(* (BaseObject: construction, assignment, to_dict, dict_list).             *)
(***************************************************************************)
EXTENDS Integers, Sequences, FiniteSets, TLC

\* ---- program constant ----
\* imported from console.constant (base.py line 13), whose text is not part
\* of the sources at hand; the properties below were also checked with the
\* values 1, 2 and 4
DB_MAX_TRY == 3

\* ---- bounds of the model ----
NumElems == 2
MaxId == 2
MaxCalls == 2

\* clock readings are counted in ticks: time.time() has a finer resolution
\* than the microsecond of datetime
TicksPerMicro == 2

None == 0
Elems == 1..NumElems
Ids == 1..MaxId
NoTime == [kind |-> "none", v |-> 0]

VARIABLES autoincrement, clock, elem, pending, deleted, txn, store, call, calls
vars == <<autoincrement, clock, elem, pending, deleted, txn, store, call, calls>>

\* ---- BaseObject time fields ----

\* datetime.fromtimestamp(value): microsecond resolution, round half to even
RoundHalfEven(n, d) ==
    LET q == n \div d
        r == n % d
    IN IF 2 * r < d THEN q
       ELSE IF 2 * r > d THEN q + 1
       ELSE IF q % 2 = 0 THEN q ELSE q + 1

FromTimestamp(value) == [kind |-> "datetime", v |-> RoundHalfEven(value, TicksPerMicro)]

\* BaseObject.__setattr__ for key = gmt_modified (a member of DATA_TIME_KEYS)
SetAttrModified(e, value) == [e EXCEPT !.gmt_modified = FromTimestamp(value)]

\* ---- the session ----

\* the raw value a query writes into a time column
RawTime(value) == [kind |-> "float", v |-> value]

Row(e, er) == [id |-> er.id, gmt_modified |-> er.gmt_modified, obj |-> e, attached |-> TRUE]
DetachedRow(e, er) == [id |-> er.id, gmt_modified |-> er.gmt_modified, obj |-> e, attached |-> FALSE]

\* the objects in the session's identity map
Persistent(t) == {e \in Elems : \E r \in t : r.obj = e /\ r.attached}
RowOf(t, e) == CHOOSE r \in t : r.obj = e /\ r.attached
Unattached(t) == {r \in t : ~r.attached}
RowIds(t) == {r.id : r \in t}

\* the next value of the auto-increment key
FreshId(used) == CHOOSE n \in 1..(MaxId + NumElems) : n \notin used /\ \A m \in 1..(n - 1) : m \in used

RECURSIVE AssignAuto(_, _, _)
AssignAuto(el, todo, used) ==
    IF todo = {} THEN el
    ELSE LET e == CHOOSE x \in todo : \A y \in todo : x <= y
             f == FreshId(used)
         IN AssignAuto([el EXCEPT ![e].id = f], todo \ {e}, used \cup {f})

\* session.flush(): INSERT every pending object, UPDATE every persistent
\* one, DELETE every object marked deleted.  FlushElems is the objects'
\* state after the store has assigned the auto-increment keys.
Written(p, d, t) == p \cup (Persistent(t) \ d)

FlushElems(el, p, d, t) ==
    IF autoincrement
    THEN AssignAuto(el, {e \in p : el[e].id = None},
                    RowIds(t) \cup RowIds(store) \cup {el[e].id : e \in Written(p, d, t)})
    ELSE el

FlushTxn(el, p, d, t) ==
    LET el2 == FlushElems(el, p, d, t)
    IN Unattached(t) \cup {Row(e, el2[e]) : e \in Written(p, d, t)}

\* the flush can succeed only if every key is non-null and unique
CanFlush(el, p, d, t) ==
    LET el2 == FlushElems(el, p, d, t)
        objs == Written(p, d, t)
    IN /\ \A e \in objs : el2[e].id \in 1..MaxId
       /\ \A e1, e2 \in objs : e1 # e2 => el2[e1].id # el2[e2].id
       /\ \A e \in objs : \A r \in Unattached(t) : r.id # el2[e].id

FlushOutcomes(el, p, d, t) ==
    {"integrity", "other"} \cup (IF CanFlush(el, p, d, t) THEN {"ok"} ELSE {})

\* session.add(element): no effect on an object already in the session
SessionAdd(p, t, e) == IF e \in Persistent(t) THEN p ELSE p \cup {e}

\* session.add(element) takes back a deletion mark set by session.delete
AddUndeletes(d, e) == d \ {e}

\* The session state is the record [elem, pending, deleted, txn, store].

SessionFlushCommitting(ss) ==
    [elem |-> FlushElems(ss.elem, ss.pending, ss.deleted, ss.txn),
     pending |-> {},
     deleted |-> {},
     txn |-> FlushTxn(ss.elem, ss.pending, ss.deleted, ss.txn),
     store |-> FlushTxn(ss.elem, ss.pending, ss.deleted, ss.txn)]

\* session.flush() when the store accepts it: the statements are sent, the
\* transaction stays open
SessionFlush(ss) ==
    [elem |-> FlushElems(ss.elem, ss.pending, ss.deleted, ss.txn),
     pending |-> {},
     deleted |-> {},
     txn |-> FlushTxn(ss.elem, ss.pending, ss.deleted, ss.txn),
     store |-> ss.store]

\* session.commit() when the store accepts it: flush, then the transaction's
\* rows become the committed rows
SessionCommit(ss) ==
    [elem |-> FlushElems(ss.elem, ss.pending, ss.deleted, ss.txn),
     pending |-> {},
     deleted |-> {},
     txn |-> FlushTxn(ss.elem, ss.pending, ss.deleted, ss.txn),
     store |-> FlushTxn(ss.elem, ss.pending, ss.deleted, ss.txn)]

\* session.rollback(): the transaction's writes, the pending set and the
\* deletion marks are gone; the objects still in the session are reloaded
\* from the committed rows
RollbackElems(el, s) ==
    [e \in Elems |->
        IF e \in Persistent(s)
        THEN [id |-> RowOf(s, e).id, gmt_modified |-> RowOf(s, e).gmt_modified]
        ELSE el[e]]

SessionRollbackSkipped(ss) == ss

SessionRollbackToSavepoint(ss) == [ss EXCEPT !.pending = {}, !.deleted = {}]

SessionRollback(ss) ==
    [elem |-> RollbackElems(ss.elem, ss.store),
     pending |-> {},
     deleted |-> {},
     txn |-> ss.store,
     store |-> ss.store]

\* session.bulk_save_objects(objects): one statement per object, in order;
\* the objects are not added to the session and receive no generated key
SaveId(er, t) ==
    IF er.id # None THEN er.id
    ELSE IF autoincrement THEN FreshId(RowIds(t) \cup RowIds(store))
    ELSE None

CanSave(el, e, t) ==
    IF e \in Persistent(t)
    THEN el[e].id \in 1..MaxId /\ el[e].id \notin RowIds(t \ {RowOf(t, e)})
    ELSE SaveId(el[e], t) \in 1..MaxId /\ SaveId(el[e], t) \notin RowIds(t)

SaveOne(el, e, t) ==
    IF e \in Persistent(t)
    THEN (t \ {RowOf(t, e)}) \cup {Row(e, el[e])}
    ELSE t \cup {DetachedRow(e, [el[e] EXCEPT !.id = SaveId(el[e], t)])}

\* the transaction after the first k objects of the bulk are saved
RECURSIVE BulkSave(_, _, _, _)
BulkSave(el, bulk, k, t) ==
    IF k = 0 THEN t ELSE SaveOne(el, bulk[k], BulkSave(el, bulk, k - 1, t))

CanBulkSave(el, bulk, k, t) ==
    \A j \in 1..k : CanSave(el, bulk[j], BulkSave(el, bulk, j - 1, t))

\* ---- the call in progress ----

NewCall(op) ==
    [op |-> op, pc |-> op, result |-> "running", count |-> 1, element |-> None,
     bulk |-> <<>>, pre |-> <<>>, outs |-> <<>>, gen |-> <<>>, gens |-> 0,
     now |-> 0, logs |-> 0, commits |-> 0, rollbacks |-> 0, target |-> {},
     transient |-> FALSE, start |-> 1, lost |-> FALSE]

Done(c, res) == [c EXCEPT !.pc = "idle", !.result = res]

\* a caller starts an operation when none is in progress
CanCall == call.pc = "idle" /\ calls < MaxCalls

Session == [elem |-> elem, pending |-> pending, deleted |-> deleted, txn |-> txn, store |-> store]

Becomes(ss) ==
    /\ elem' = ss.elem
    /\ pending' = ss.pending
    /\ deleted' = ss.deleted
    /\ txn' = ss.txn
    /\ store' = ss.store

\* a row of another application's object, already committed
ForeignRow == [id |-> 1, gmt_modified |-> NoTime, obj |-> 0, attached |-> FALSE]

Init ==
    /\ autoincrement \in BOOLEAN
    /\ clock = 1
    /\ elem \in [Elems -> [id : Ids \cup {None}, gmt_modified : {NoTime}]]
    /\ pending = {}
    /\ deleted = {}
    /\ store \in {{}, {ForeignRow}}
    /\ txn = store
    /\ calls = 0
    /\ call = [NewCall("none") EXCEPT !.pc = "idle", !.result = "returned"]

\* ---- BaseRepository.get_in ----

\* lines 141-147: the rows whose id is in id_list
GetIn(t, id_list) == {r \in t : r.id \in id_list}

\* ---- BaseRepository.insert_or_update ----

BudgetExceededLate(count) == count > DB_MAX_TRY + 1

\* lines 156 and 185: if count > DB_MAX_TRY
BudgetExceeded(count) == count > DB_MAX_TRY

\* the call with the default count
Call_insert_or_update ==
    /\ CanCall
    /\ calls' = calls + 1
    /\ \E e \in Elems :
       call' = [NewCall("insert_or_update")
                   EXCEPT !.element = e, !.pre = <<elem[e].id>>,
                          !.transient = e \notin pending \cup Persistent(txn)]
    /\ UNCHANGED <<autoincrement, clock, elem, pending, deleted, txn, store>>

insert_or_update_exhausted_silently ==
    /\ call.pc = "insert_or_update"
    /\ BudgetExceeded(call.count)
    /\ call' = Done(call, "Internal")
    /\ UNCHANGED <<autoincrement, clock, elem, pending, deleted, txn, store, calls>>

\* lines 156-158: the retry budget is exceeded
insert_or_update_exhausted ==
    /\ call.pc = "insert_or_update"
    /\ BudgetExceeded(call.count)
    /\ call' = [Done(call, "Internal") EXCEPT !.logs = @ + 1]
    /\ UNCHANGED <<autoincrement, clock, elem, pending, deleted, txn, store, calls>>

\* line 159: the element gets a generated id
NeedsId(er) == er.id = None /\ ~autoincrement

SetModifiedOnce(er, now) ==
    IF er.gmt_modified = NoTime THEN SetAttrModified(er, now) ELSE er

\* lines 161-163: element.gmt_modified = now
SetModified(er, now) == SetAttrModified(er, now)

OnOtherErrorRetried(c) == [c EXCEPT !.pc = "insert_or_update_except"]

\* lines 172-174: the handler of a failure that is not an IntegrityError
OnOtherError(c) == [Done(c, "Internal") EXCEPT !.logs = @ + 1]

\* lines 159-167 and 172-174: one attempt
insert_or_update_attempt ==
    /\ call.pc = "insert_or_update"
    /\ ~BudgetExceeded(call.count)
    /\ LET e == call.element
           generate == NeedsId(elem[e])
       IN \E g \in Ids :
          LET newid == IF generate THEN g ELSE elem[e].id
              er == SetModified([elem[e] EXCEPT !.id = newid], clock)
              ss == [Session EXCEPT !.elem = [elem EXCEPT ![e] = er],
                                    !.pending = SessionAdd(pending, txn, e),
                                    !.deleted = AddUndeletes(deleted, e)]
          IN /\ (~generate => g = 1)
             /\ clock' = clock + 1
             /\ \E o \in FlushOutcomes(ss.elem, ss.pending, ss.deleted, ss.txn) :
                LET c == [call EXCEPT !.outs = Append(@, o),
                                      !.gen = IF generate THEN <<g>> ELSE <<>>,
                                      !.gens = IF generate THEN @ + 1 ELSE @,
                                      !.now = clock]
                IN CASE o = "ok" ->
                          /\ Becomes(SessionFlush(ss))
                          /\ call' = Done(c, "returned")
                     [] o = "integrity" ->
                          /\ Becomes(ss)
                          /\ call' = [c EXCEPT !.pc = "insert_or_update_except"]
                     [] OTHER ->
                          /\ Becomes(ss)
                          /\ call' = OnOtherError(c)
    /\ UNCHANGED <<autoincrement, calls>>

ClearIdKept(er) == er

\* line 169
ClearId(er) == [er EXCEPT !.id = None]

insert_or_update_except_keeping_id ==
    /\ call.pc = "insert_or_update_except"
    /\ call' = [call EXCEPT !.count = @ + 1, !.pc = "insert_or_update"]
    /\ UNCHANGED <<autoincrement, clock, elem, pending, deleted, txn, store, calls>>

\* lines 168-171: the IntegrityError handler, up to the recursive call
insert_or_update_except ==
    /\ call.pc = "insert_or_update_except"
    /\ elem' = [elem EXCEPT ![call.element] = ClearId(@)]
    /\ call' = [call EXCEPT !.count = @ + 1, !.pc = "insert_or_update"]
    /\ UNCHANGED <<autoincrement, clock, pending, deleted, txn, store, calls>>

\* ---- BaseRepository.insert_or_update_batch ----

\* the lists of distinct elements a caller can pass
Bulks == {b \in UNION {[1..n -> Elems] : n \in 0..NumElems} :
             \A x, y \in DOMAIN b : x # y => b[x] # b[y]}

\* the call with the default count
Call_insert_or_update_batch ==
    /\ CanCall
    /\ calls' = calls + 1
    /\ \E b \in Bulks :
       call' = [NewCall("insert_or_update_batch")
                   EXCEPT !.bulk = b, !.pre = [x \in DOMAIN b |-> elem[b[x]].id]]
    /\ UNCHANGED <<autoincrement, clock, elem, pending, deleted, txn, store>>

\* lines 183-184
insert_or_update_batch_empty ==
    /\ call.pc = "insert_or_update_batch"
    /\ call.bulk = <<>>
    /\ call' = Done(call, "returned")
    /\ UNCHANGED <<autoincrement, clock, elem, pending, deleted, txn, store, calls>>

BatchExhaustedFallsThrough(c) == Done(c, "returned")

\* lines 185-187: the retry budget is exceeded
BatchExhausted(c) == [Done(c, "Internal") EXCEPT !.logs = @ + 1]

insert_or_update_batch_exhausted ==
    /\ call.pc = "insert_or_update_batch"
    /\ call.bulk # <<>>
    /\ BudgetExceeded(call.count)
    /\ call' = BatchExhausted(call)
    /\ UNCHANGED <<autoincrement, clock, elem, pending, deleted, txn, store, calls>>

\* lines 188-192: ids are generated iff the first element needs one
GenerateIds(el, bulk) == NeedsId(el[bulk[1]])

Index(bulk, e) == CHOOSE k \in DOMAIN bulk : bulk[k] = e
InBulk(bulk, e) == \E k \in DOMAIN bulk : bulk[k] = e

AssignBatchPerElement(el, bulk, generate, id_list, now) ==
    [e \in Elems |->
        IF InBulk(bulk, e)
        THEN SetModified([el[e] EXCEPT !.id = IF NeedsId(el[e]) THEN id_list[Index(bulk, e)] ELSE @], now)
        ELSE el[e]]

AssignBatchClockPerElement(el, bulk, generate, id_list, now) ==
    [e \in Elems |->
        IF InBulk(bulk, e)
        THEN SetModified([el[e] EXCEPT !.id = IF generate THEN id_list[Index(bulk, e)] ELSE @],
                         now + Index(bulk, e))
        ELSE el[e]]

\* lines 194-198: the elements after the assignment loop
AssignBatch(el, bulk, generate, id_list, now) ==
    [e \in Elems |->
        IF InBulk(bulk, e)
        THEN SetModified([el[e] EXCEPT !.id = IF generate THEN id_list[Index(bulk, e)] ELSE @], now)
        ELSE el[e]]

\* lines 188-202: one attempt.  k objects are saved before the first failure.
insert_or_update_batch_attempt ==
    /\ call.pc = "insert_or_update_batch"
    /\ call.bulk # <<>>
    /\ ~BudgetExceeded(call.count)
    /\ LET bulk == call.bulk
           generate == GenerateIds(elem, bulk)
       IN \E id_list \in [DOMAIN bulk -> Ids] :
          LET el == AssignBatch(elem, bulk, generate, id_list, clock)
          IN /\ (~generate => \A k \in DOMAIN bulk : id_list[k] = 1)
             /\ clock' = clock + 1
             /\ \E k \in 0..Len(bulk) :
                /\ CanBulkSave(el, bulk, k, txn)
                /\ LET ss == [Session EXCEPT !.elem = el, !.txn = BulkSave(el, bulk, k, txn)]
                       outcomes == IF k < Len(bulk) THEN {"integrity", "other"}
                                   ELSE FlushOutcomes(ss.elem, ss.pending, ss.deleted, ss.txn)
                   IN \E o \in outcomes :
                      LET c == [call EXCEPT !.outs = Append(@, o),
                                            !.gen = IF generate THEN id_list ELSE <<>>,
                                            !.gens = IF generate THEN @ + 1 ELSE @,
                                            !.now = clock]
                      IN CASE o = "ok" ->
                                /\ Becomes(SessionFlush(ss))
                                /\ call' = Done(c, "returned")
                           [] o = "integrity" ->
                                /\ Becomes(ss)
                                /\ call' = [c EXCEPT !.pc = "insert_or_update_batch_except"]
                           [] OTHER ->
                                /\ Becomes(ss)
                                /\ call' = Done(c, "StoreError")
    /\ UNCHANGED <<autoincrement, calls>>

\* lines 205-206
ClearIds(el, bulk) ==
    [e \in Elems |-> IF InBulk(bulk, e) THEN [el[e] EXCEPT !.id = None] ELSE el[e]]

\* lines 203-208: the IntegrityError handler, up to the recursive call
insert_or_update_batch_except ==
    /\ call.pc = "insert_or_update_batch_except"
    /\ LET ss == SessionRollback(Session)
       IN Becomes([ss EXCEPT !.elem = ClearIds(ss.elem, call.bulk)])
    /\ call' = [call EXCEPT !.count = @ + 1, !.pc = "insert_or_update_batch",
                            !.rollbacks = @ + 1,
                            !.lost = @ \/ \E r \in txn \ store :
                                            r.attached /\ ~InBulk(call.bulk, r.obj)]
    /\ UNCHANGED <<autoincrement, clock, calls>>

\* ---- BaseRepository.update_with_attr ----

\* filter_by(**query_attr): equality on the id column, or no criterion (None)
Matching(t, q) == {r \in t : q = None \/ r.id = q}

QueryUpdateEveryRow(ss, q, now) ==
    [ss EXCEPT
       !.txn = {[r EXCEPT !.gmt_modified = RawTime(now)] : r \in ss.txn},
       !.elem = [e \in Elems |->
                   IF e \in Persistent(ss.txn)
                   THEN [ss.elem[e] EXCEPT !.gmt_modified = RawTime(now)]
                   ELSE ss.elem[e]]]

\* line 219: Query.update on the flushed session: the matching rows, and the
\* session's objects that match, get the raw value of update_attr
QueryUpdate(ss, q, now) ==
    LET hit == Matching(ss.txn, q)
    IN [ss EXCEPT
          !.txn = (ss.txn \ hit) \cup {[r EXCEPT !.gmt_modified = RawTime(now)] : r \in hit},
          !.elem = [e \in Elems |->
                      IF \E r \in hit : r.obj = e /\ r.attached
                      THEN [ss.elem[e] EXCEPT !.gmt_modified = RawTime(now)]
                      ELSE ss.elem[e]]]

\* lines 217-220: the query flushes the session first (autoflush), updates,
\* then the session commits; a failure of any of the three escapes
update_with_attr ==
    /\ CanCall
    /\ calls' = calls + 1
    /\ clock' = clock + 1
    /\ \E q \in Ids \cup {None} :
       \E o \in FlushOutcomes(elem, pending, deleted, txn) \cup {"commit_fails"} :
       LET c == [NewCall("update_with_attr") EXCEPT !.now = clock]
           updated == QueryUpdate(SessionFlush(Session), q, clock)
       IN CASE o = "ok" ->
                 /\ Becomes(SessionCommit(updated))
                 /\ call' = [Done(c, "returned")
                                EXCEPT !.commits = 1,
                                       !.target = RowIds(Matching(SessionFlush(Session).txn, q))]
            [] o = "commit_fails" /\ CanFlush(elem, pending, deleted, txn) ->
                 /\ Becomes(updated)
                 /\ call' = Done(c, "StoreError")
            [] OTHER ->
                 /\ Becomes(Session)
                 /\ call' = Done(c, "StoreError")
    /\ UNCHANGED autoincrement

\* ---- BaseRepository.update_with_id_list ----

\* lines 229-231: filter_by accepts keyword arguments only; the positional
\* criterion raises TypeError before any statement is sent
update_with_id_list ==
    /\ CanCall
    /\ calls' = calls + 1
    /\ clock' = clock + 1
    /\ \E ids \in SUBSET Ids :
       call' = [Done(NewCall("update_with_id_list"), "TypeError")
                   EXCEPT !.now = clock, !.target = ids]
    /\ UNCHANGED <<autoincrement, elem, pending, deleted, txn, store>>

\* ---- BaseRepository.delete ----

\* lines 241-242: session.delete refuses an object that is not persistent
delete ==
    /\ CanCall
    /\ calls' = calls + 1
    /\ \E e \in Elems :
       LET c == [NewCall("delete") EXCEPT !.element = e]
           ss == [Session EXCEPT !.deleted = deleted \cup {e}]
       IN IF e \notin Persistent(txn)
          THEN /\ call' = Done(c, "StoreError")
               /\ Becomes(Session)
          ELSE \E o \in FlushOutcomes(ss.elem, ss.pending, ss.deleted, ss.txn) :
                  IF o = "ok"
                  THEN /\ Becomes(SessionCommit(ss))
                       /\ call' = [Done(c, "returned") EXCEPT !.commits = 1]
                  ELSE /\ Becomes(ss)
                       /\ call' = Done(c, "StoreError")
    /\ UNCHANGED <<autoincrement, clock>>

\* ---- BaseRepository.delete_with_id_list ----

\* line 250: filter_by accepts keyword arguments only
delete_with_id_list ==
    /\ CanCall
    /\ calls' = calls + 1
    /\ \E ids \in SUBSET Ids :
       call' = [Done(NewCall("delete_with_id_list"), "TypeError") EXCEPT !.target = ids]
    /\ UNCHANGED <<autoincrement, clock, elem, pending, deleted, txn, store>>

\* ---- BaseRepository.add ----

add ==
    /\ CanCall
    /\ calls' = calls + 1
    /\ \E e \in Elems :
       /\ pending' = SessionAdd(pending, txn, e)
       /\ deleted' = AddUndeletes(deleted, e)
       /\ call' = [Done(NewCall("add"), "returned") EXCEPT !.element = e]
    /\ UNCHANGED <<autoincrement, clock, elem, txn, store>>

\* ---- BaseRepository.commit ----

commit ==
    /\ CanCall
    /\ calls' = calls + 1
    /\ \E o \in FlushOutcomes(elem, pending, deleted, txn) :
       IF o = "ok"
       THEN /\ Becomes(SessionCommit(Session))
            /\ call' = [Done(NewCall("commit"), "returned") EXCEPT !.commits = 1]
       ELSE /\ Becomes(Session)
            /\ call' = Done(NewCall("commit"), "StoreError")
    /\ UNCHANGED <<autoincrement, clock>>

Next ==
    \/ Call_insert_or_update
    \/ insert_or_update_exhausted
    \/ insert_or_update_attempt
    \/ insert_or_update_except
    \/ Call_insert_or_update_batch
    \/ insert_or_update_batch_empty
    \/ insert_or_update_batch_exhausted
    \/ insert_or_update_batch_attempt
    \/ insert_or_update_batch_except
    \/ update_with_attr
    \/ update_with_id_list
    \/ delete
    \/ delete_with_id_list
    \/ add
    \/ commit

Spec == Init /\ [][Next]_vars

\* ---- calls with an explicit count ----

\* the values of count a caller passes; one such call is followed from
\* every initial state
Counts == 1..(DB_MAX_TRY + 2)

\* line 149: insert_or_update(element, count)
Call_insert_or_update_count ==
    /\ call.pc = "idle"
    /\ calls = 0
    /\ calls' = calls + 1
    /\ \E e \in Elems : \E c \in Counts :
       call' = [NewCall("insert_or_update")
                   EXCEPT !.element = e, !.pre = <<elem[e].id>>,
                          !.transient = e \notin pending \cup Persistent(txn),
                          !.count = c, !.start = c]
    /\ UNCHANGED <<autoincrement, clock, elem, pending, deleted, txn, store>>

\* line 176: insert_or_update_batch(bulk, count)
Call_insert_or_update_batch_count ==
    /\ call.pc = "idle"
    /\ calls = 0
    /\ calls' = calls + 1
    /\ \E b \in Bulks : \E c \in Counts :
       call' = [NewCall("insert_or_update_batch")
                   EXCEPT !.bulk = b, !.pre = [x \in DOMAIN b |-> elem[b[x]].id],
                          !.count = c, !.start = c]
    /\ UNCHANGED <<autoincrement, clock, elem, pending, deleted, txn, store>>

\* the steps of a call in progress: the code runs them without waiting
Step ==
    \/ insert_or_update_exhausted
    \/ insert_or_update_attempt
    \/ insert_or_update_except
    \/ insert_or_update_batch_empty
    \/ insert_or_update_batch_exhausted
    \/ insert_or_update_batch_attempt
    \/ insert_or_update_batch_except

NextCount ==
    \/ Call_insert_or_update_count
    \/ Call_insert_or_update_batch_count
    \/ insert_or_update_exhausted
    \/ insert_or_update_attempt
    \/ insert_or_update_except
    \/ insert_or_update_batch_empty
    \/ insert_or_update_batch_exhausted
    \/ insert_or_update_batch_attempt
    \/ insert_or_update_batch_except

SpecCount == Init /\ [][NextCount]_vars /\ WF_vars(Step)

\* ---- two sessions on one store ----

\* Two Repository instances, each bound to its own session; every object
\* belongs to one session.  Here txn holds the rows written by either
\* session, committed or not, store the committed ones, and call and calls
\* are indexed by session.  Each session makes one insert_or_update call
\* and commits when it has something to commit.
Sessions == {1, 2}
Own(s) == {e \in Elems : ((e - 1) % 2) + 1 = s}

\* the rows as the flush of session s meets them: its own objects' rows
\* belong to its identity map, every other row (the uncommitted rows of the
\* other session included: the store holds their keys) is just a row
View(s) == {[r EXCEPT !.attached = r.attached /\ r.obj \in Own(s)] : r \in txn}

OwnRow(s, r) == r.attached /\ r.obj \in Own(s)

\* the rows after a successful flush of session s with pending set p
FlushRows(s, el, p) ==
    {r \in txn : ~OwnRow(s, r)}
       \cup {Row(e, FlushElems(el, p, {}, View(s))[e]) : e \in Written(p, {}, View(s))}

InitConc ==
    /\ autoincrement \in BOOLEAN
    /\ clock = 1
    /\ elem \in [Elems -> [id : Ids \cup {None}, gmt_modified : {NoTime}]]
    /\ pending = {}
    /\ deleted = {}
    /\ store \in {{}, {ForeignRow}}
    /\ txn = store
    /\ calls = [s \in Sessions |-> 0]
    /\ call = [s \in Sessions |-> [NewCall("none") EXCEPT !.pc = "idle", !.result = "returned"]]

\* line 149, session s
Call_insert_or_update_in(s) ==
    /\ call[s].pc = "idle"
    /\ calls[s] = 0
    /\ calls' = [calls EXCEPT ![s] = 1]
    /\ \E e \in Own(s) :
       call' = [call EXCEPT ![s] = [NewCall("insert_or_update")
                                      EXCEPT !.element = e, !.pre = <<elem[e].id>>,
                                             !.transient = TRUE]]
    /\ UNCHANGED <<autoincrement, clock, elem, pending, deleted, txn, store>>

\* lines 156-158, session s
insert_or_update_exhausted_in(s) ==
    /\ call[s].pc = "insert_or_update"
    /\ BudgetExceeded(call[s].count)
    /\ call' = [call EXCEPT ![s] = [Done(@, "Internal") EXCEPT !.logs = @ + 1]]
    /\ UNCHANGED <<autoincrement, clock, elem, pending, deleted, txn, store, calls>>

\* lines 159-167 and 172-174, session s
insert_or_update_attempt_in(s) ==
    /\ call[s].pc = "insert_or_update"
    /\ ~BudgetExceeded(call[s].count)
    /\ LET e == call[s].element
           generate == NeedsId(elem[e])
       IN \E g \in Ids :
          LET newid == IF generate THEN g ELSE elem[e].id
              el == [elem EXCEPT ![e] = SetModified([elem[e] EXCEPT !.id = newid], clock)]
              p == SessionAdd(pending \cap Own(s), View(s), e)
          IN /\ (~generate => g = 1)
             /\ clock' = clock + 1
             /\ \E o \in FlushOutcomes(el, p, {}, View(s)) :
                LET c == [call[s] EXCEPT !.outs = Append(@, o),
                                         !.gen = IF generate THEN <<g>> ELSE <<>>,
                                         !.gens = IF generate THEN @ + 1 ELSE @,
                                         !.now = clock]
                IN CASE o = "ok" ->
                          /\ elem' = FlushElems(el, p, {}, View(s))
                          /\ pending' = pending \ Own(s)
                          /\ txn' = FlushRows(s, el, p)
                          /\ call' = [call EXCEPT ![s] = Done(c, "returned")]
                     [] o = "integrity" ->
                          /\ elem' = el
                          /\ pending' = pending \cup p
                          /\ txn' = txn
                          /\ call' = [call EXCEPT ![s] = [c EXCEPT !.pc = "insert_or_update_except"]]
                     [] OTHER ->
                          /\ elem' = el
                          /\ pending' = pending \cup p
                          /\ txn' = txn
                          /\ call' = [call EXCEPT ![s] = OnOtherError(c)]
    /\ UNCHANGED <<autoincrement, deleted, store, calls>>

insert_or_update_except_in_keeping_id(s) ==
    /\ call[s].pc = "insert_or_update_except"
    /\ call' = [call EXCEPT ![s] = [@ EXCEPT !.count = @ + 1, !.pc = "insert_or_update"]]
    /\ UNCHANGED <<autoincrement, clock, elem, pending, deleted, txn, store, calls>>

\* lines 168-171, session s
insert_or_update_except_in(s) ==
    /\ call[s].pc = "insert_or_update_except"
    /\ elem' = [elem EXCEPT ![call[s].element] = ClearId(@)]
    /\ call' = [call EXCEPT ![s] = [@ EXCEPT !.count = @ + 1, !.pc = "insert_or_update"]]
    /\ UNCHANGED <<autoincrement, clock, pending, deleted, txn, store, calls>>

\* lines 89-94, session s: a commit the store accepts; one it refuses
\* changes nothing
commit_in(s) ==
    /\ call[s].pc = "idle"
    /\ LET p == pending \cap Own(s)
       IN /\ p # {} \/ \E r \in txn \ store : OwnRow(s, r)
          /\ CanFlush(elem, p, {}, View(s))
          /\ elem' = FlushElems(elem, p, {}, View(s))
          /\ pending' = pending \ Own(s)
          /\ txn' = FlushRows(s, elem, p)
          /\ store' = {r \in store : ~OwnRow(s, r)} \cup {r \in FlushRows(s, elem, p) : OwnRow(s, r)}
    /\ UNCHANGED <<autoincrement, clock, deleted, call, calls>>

NextConc ==
    \/ \E s \in Sessions : Call_insert_or_update_in(s)
    \/ \E s \in Sessions : insert_or_update_exhausted_in(s)
    \/ \E s \in Sessions : insert_or_update_attempt_in(s)
    \/ \E s \in Sessions : insert_or_update_except_in(s)
    \/ \E s \in Sessions : commit_in(s)

SpecConc == InitConc /\ [][NextConc]_vars

\* ---- BaseObject: construction, assignment, to_dict, dict_list ----

\* In this part elem[e] is a Python object: made tells whether it has been
\* constructed, attrs maps each column to its attribute value, and given and
\* how record the last value supplied for gmt_modified and the way it was
\* supplied.  Values are tagged with their Python type.  call holds the one
\* serialisation call and its result.

\* names imported from console.constant (line 13)
DATA_CREATE == "gmt_create"
DATA_TIME_KEYS == {"gmt_create", "gmt_modified"}

\* self.__table__.columns, line 48
Columns == {"id", "gmt_create", "gmt_modified", "status"}
Keys == Columns \cup {"extra", "i"}

IntVal(n) == [kind |-> "int", v |-> n]
EnumVal(n) == [kind |-> "enum", v |-> n]
StrVal(c) == [kind |-> "str", v |-> c]

\* the epoch-seconds values callers supply, in ticks: zero, values between
\* two microseconds, whole microseconds
Times == 0..(TicksPerMicro + 1)

\* Python truth value, line 56
Truthy(val) ==
    CASE val.kind = "none" -> FALSE
      [] val.kind \in {"int", "float"} -> val.v # 0
      [] OTHER -> TRUE

\* datetime.timestamp(value), line 57: seconds as a float
Timestamp(val) == RawTime(val.v * TicksPerMicro)

Blank == [k \in Columns |-> NoTime]

\* line 24: self.__dict__.update(kwargs) stores the values as they are
DictUpdate(attrs, kwargs) ==
    [k \in Columns |-> IF k \in DOMAIN kwargs THEN kwargs[k] ELSE attrs[k]]

\* lines 27-30: __setattr__
SetAttr(attrs, key, value) ==
    [attrs EXCEPT ![key] = IF key \in DATA_TIME_KEYS THEN FromTimestamp(value.v) ELSE value]

\* lines 23-25: __init__(**kwargs) at clock reading now
Construct(kwargs, now) == SetAttr(DictUpdate(Blank, kwargs), DATA_CREATE, RawTime(now))

\* the arguments of to_dict: added is None, a dict, or (from dict_list) a
\* list of strings; excluded is a list of column names, None being treated
\* as the empty list (line 42)
NoAdded == [kind |-> "none", map |-> [k \in {} |-> NoTime], list |-> <<>>]
AddedDict(m) == [kind |-> "dict", map |-> m, list |-> <<>>]
AddedList(l) == [kind |-> "list", map |-> [k \in {} |-> NoTime], list |-> l]
AddedValue == IntVal(7)
AddedDicts == {AddedDict([k \in K |-> AddedValue]) : K \in SUBSET {"id", "extra"}}
Addeds == {NoAdded} \cup AddedDicts
Excludeds == {<<>>, <<"id">>, <<"gmt_modified">>, <<"extra">>, <<"id", "gmt_modified">>}
Range(l) == {l[i] : i \in DOMAIN l}

\* lines 44-46: output = {}; if added: output.update(added).  A list of
\* strings updates the dict only if every string has two characters, and
\* then maps the first character to the second ("id": 'i' -> 'd', code 100)
UpdateRaises(added) == added.kind = "list" /\ \E i \in DOMAIN added.list : added.list[i] # "id"

Updated(added) ==
    IF added.kind = "dict" THEN added.map
    ELSE IF added.kind = "list" /\ added.list # <<>> THEN [k \in {"i"} |-> StrVal(100)]
    ELSE [k \in {} |-> NoTime]

\* lines 52-57: the value of one column
ConvertRaises(key, val) == key \in DATA_TIME_KEYS /\ Truthy(val) /\ val.kind # "datetime"

Convert(key, val) ==
    LET value == IF val.kind = "enum" THEN IntVal(val.v) ELSE val
    IN IF Truthy(value) /\ key \in DATA_TIME_KEYS THEN Timestamp(value) ELSE value

\* lines 35-59: to_dict(added, excluded)
ToDict(attrs, added, excluded) ==
    LET kept == Columns \ Range(excluded)
        base == Updated(added)
    IN IF UpdateRaises(added) THEN [raised |-> "ValueError", output |-> [k \in {} |-> NoTime]]
       ELSE IF \E k \in kept : ConvertRaises(k, attrs[k])
       THEN [raised |-> "TypeError", output |-> [k \in {} |-> NoTime]]
       ELSE [raised |-> "none",
             output |-> [k \in DOMAIN base \cup kept |->
                           IF k \in kept THEN Convert(k, attrs[k]) ELSE base[k]]]

\* isinstance(obj, cls), line 69: the odd objects are of the class, the
\* even ones of another model class
IsInstance(e) == e % 2 = 1

\* line 69: [obj.to_dict(excluded) for obj in obj_list if isinstance(obj, cls)]
RECURSIVE DictList(_, _, _)
DictList(el, obj_list, excluded) ==
    IF obj_list = <<>> THEN <<>>
    ELSE LET rest == DictList(el, Tail(obj_list), excluded)
         IN IF IsInstance(Head(obj_list))
            THEN <<ToDict(el[Head(obj_list)].attrs, AddedList(excluded), <<>>)>> \o rest
            ELSE rest

ObjLists == {l \in UNION {[1..n -> Elems] : n \in 0..NumElems} :
               \A x, y \in DOMAIN l : x # y => l[x] # l[y]}

NoCall == [op |-> "none", element |-> None, added |-> NoAdded, excluded |-> <<>>,
           list |-> <<>>, results |-> <<>>]

InitObj ==
    /\ autoincrement = FALSE
    /\ clock = 1
    /\ elem = [e \in Elems |-> [made |-> FALSE, attrs |-> Blank, given |-> 0, how |-> "none"]]
    /\ pending = {}
    /\ deleted = {}
    /\ txn = {}
    /\ store = {}
    /\ calls = 0
    /\ call = NoCall

\* cls(id=..., status=...) or cls(id=..., status=..., gmt_modified=V)
New ==
    /\ calls = 0
    /\ \E e \in Elems : \E withtime \in BOOLEAN : \E V \in Times :
       /\ ~elem[e].made
       /\ (~withtime => V = 0)
       /\ LET kwargs == [k \in {"id", "status"} \cup (IF withtime THEN {"gmt_modified"} ELSE {}) |->
                           CASE k = "id" -> IntVal(e)
                             [] k = "status" -> EnumVal(1)
                             [] OTHER -> RawTime(V)]
          IN elem' = [elem EXCEPT ![e] = [made |-> TRUE, attrs |-> Construct(kwargs, clock),
                                          given |-> V,
                                          how |-> IF withtime THEN "init" ELSE "none"]]
    /\ UNCHANGED <<autoincrement, clock, pending, deleted, txn, store, call, calls>>

\* obj.gmt_modified = V
Assign ==
    /\ calls = 0
    /\ \E e \in Elems : \E V \in Times :
       /\ elem[e].made
       /\ elem' = [elem EXCEPT ![e].attrs = SetAttr(@, "gmt_modified", RawTime(V)),
                               ![e].given = V,
                               ![e].how = "setattr"]
    /\ UNCHANGED <<autoincrement, clock, pending, deleted, txn, store, call, calls>>

\* obj.to_dict(added, excluded)
Call_to_dict ==
    /\ calls = 0
    /\ calls' = 1
    /\ \E e \in Elems : \E added \in Addeds : \E excluded \in Excludeds :
       /\ elem[e].made
       /\ call' = [NoCall EXCEPT !.op = "to_dict", !.element = e, !.added = added,
                                 !.excluded = excluded,
                                 !.results = <<ToDict(elem[e].attrs, added, excluded)>>]
    /\ UNCHANGED <<autoincrement, clock, elem, pending, deleted, txn, store>>

\* cls.dict_list(obj_list, excluded)
Call_dict_list ==
    /\ calls = 0
    /\ calls' = 1
    /\ \E l \in ObjLists : \E excluded \in Excludeds \ {<<"extra">>} :
       /\ \A i \in DOMAIN l : elem[l[i]].made
       /\ call' = [NoCall EXCEPT !.op = "dict_list", !.list = l, !.excluded = excluded,
                                 !.results = DictList(elem, l, excluded)]
    /\ UNCHANGED <<autoincrement, clock, elem, pending, deleted, txn, store>>

NextObj ==
    \/ New
    \/ Assign
    \/ Call_to_dict
    \/ Call_dict_list

SpecObj == InitObj /\ [][NextObj]_vars

\* ---- properties ----

\* the first n flushes of the call failed with a constraint violation
Conflicts(n) == \A i \in 1..n : call.outs[i] = "integrity"

Finished == call.pc = "idle"

\* C1: insert_or_update (default count) on an entity with no id, schema not
\* auto-increment: when the first N-1 flushes fail with a constraint
\* violation and the Nth succeeds, the call has returned normally, N flushes
\* were attempted (the retry counter stands at N <= DB_MAX_TRY), an id was
\* generated on each of them, and the entity is stored under the Nth one.
C1_RetriesThenSuccess ==
    (/\ call.op = "insert_or_update"
     /\ call.pre[1] = None
     /\ ~autoincrement
     /\ Len(call.outs) >= 1
     /\ Conflicts(Len(call.outs) - 1)
     /\ call.outs[Len(call.outs)] = "ok")
    => /\ Finished
       /\ call.result = "returned"
       /\ call.count = Len(call.outs)
       /\ ~BudgetExceeded(call.count)
       /\ call.gens = Len(call.outs)
       /\ elem[call.element].id = call.gen[1]
       /\ elem[call.element].id # None
       /\ \E r \in txn : r.obj = call.element /\ r.attached /\ r.id = call.gen[1]

C1_Witness ==
    /\ call.op = "insert_or_update"
    /\ call.pre[1] = None
    /\ ~autoincrement
    /\ Len(call.outs) = DB_MAX_TRY
    /\ Conflicts(DB_MAX_TRY - 1)
    /\ call.result = "returned"

\* C2: when every flush of an insert_or_update call on an entity that was
\* not in the session fails with a constraint violation, the call raises
\* Internal and the entity is neither stored nor left in the pending set.
C2_ExhaustedLeavesNothing ==
    (/\ call.op = "insert_or_update"
     /\ call.transient
     /\ Finished
     /\ Len(call.outs) >= 1
     /\ Conflicts(Len(call.outs)))
    => /\ call.result = "Internal"
       /\ call.element \notin pending
       /\ call.element \notin Persistent(txn) \cup Persistent(store)

\* C3: when every flush of an insert_or_update_batch call on a non-empty
\* list fails with a constraint violation, the call does not return
\* normally: it ends by raising Internal after DB_MAX_TRY attempts.
C3_BatchExhaustionRaises ==
    (/\ call.op = "insert_or_update_batch"
     /\ call.bulk # <<>>
     /\ Finished
     /\ Conflicts(Len(call.outs)))
    => /\ call.result = "Internal"
       /\ Len(call.outs) = DB_MAX_TRY
       /\ call.count = DB_MAX_TRY + 1

C3_Witness ==
    /\ call.op = "insert_or_update_batch"
    /\ Finished
    /\ Len(call.outs) = DB_MAX_TRY
    /\ Conflicts(DB_MAX_TRY)
    /\ call.result = "Internal"

\* C4: in insert_or_update_batch, when the next attempt (or the budget check)
\* is entered after a constraint violation, the session has been rolled back
\* once per failed attempt, nothing of the failed attempt is in the
\* transaction or the pending set, and every element's id is None; the
\* attempt that follows gives every element a generated id (schema not
\* auto-increment).
C4_BatchRetryFromScratch ==
    /\ (/\ call.pc = "insert_or_update_batch"
        /\ Len(call.outs) >= 1)
       => /\ call.rollbacks = Len(call.outs)
          /\ call.count = Len(call.outs) + 1
          /\ txn = store
          /\ pending = {}
          /\ \A k \in DOMAIN call.bulk : elem[call.bulk[k]].id = None
    /\ (/\ call.op = "insert_or_update_batch"
        /\ Len(call.outs) >= 2
        /\ ~autoincrement
        /\ \/ call.pc = "insert_or_update_batch_except"
           \/ Finished /\ call.result # "Internal")
       => /\ call.gens >= Len(call.outs) - 1
          /\ DOMAIN call.gen = DOMAIN call.bulk
          /\ \A k \in DOMAIN call.bulk : elem[call.bulk[k]].id = call.gen[k]

C4_Witness ==
    /\ call.op = "insert_or_update_batch"
    /\ ~autoincrement
    /\ Len(call.outs) >= 2
    /\ Len(call.bulk) = 2
    /\ call.pre[1] # None
    /\ call.result = "returned"

\* C5: in insert_or_update a flush failure that is not a constraint
\* violation, on the first attempt or on a retry, ends the call at once with
\* Internal: it is the last flush of the call.
C5_OtherFailureIsFatal ==
    (/\ call.op = "insert_or_update"
     /\ \E i \in DOMAIN call.outs : call.outs[i] = "other")
    => /\ Finished
       /\ call.result = "Internal"
       /\ call.outs[Len(call.outs)] = "other"
       /\ Conflicts(Len(call.outs) - 1)

C5_Witness ==
    /\ call.op = "insert_or_update"
    /\ Len(call.outs) >= 2
    /\ call.outs[Len(call.outs)] = "other"
    /\ call.result = "Internal"

WriteOps == {"insert_or_update", "insert_or_update_batch", "update_with_attr",
             "update_with_id_list", "delete", "delete_with_id_list"}

\* C6: a Repository write operation that fails reaches its caller as
\* Internal and as nothing else.
C6_OnlyInternalEscapes ==
    (Finished /\ call.op \in WriteOps) => call.result \in {"returned", "Internal"}

\* C7: no step of insert_or_update or insert_or_update_batch commits: the
\* committed rows change only in a step of commit, update_with_attr or
\* delete that commits the session.
C7_InsertsNeverCommit ==
    [][/\ call.pc # "idle" => (store' = store /\ call'.commits = 0)
       /\ store' # store => (call'.commits = 1 /\ call'.op \in {"commit", "update_with_attr", "delete"})]_vars

C7_Witness ==
    /\ call.op = "insert_or_update"
    /\ call.result = "returned"
    /\ call.commits = 0
    /\ call.element \in Persistent(txn)
    /\ RowOf(txn, call.element) \notin store

\* C8: a batch of K >= 1 entities that all had no id, schema not
\* auto-increment: after a normal return the K ids are non-empty and pairwise
\* distinct and the K entities carry one gmt_modified value.
C8_BatchDistinctIdsOneTime ==
    (/\ call.op = "insert_or_update_batch"
     /\ call.bulk # <<>>
     /\ ~autoincrement
     /\ \A k \in DOMAIN call.pre : call.pre[k] = None
     /\ Finished
     /\ call.result = "returned")
    => /\ \A k \in DOMAIN call.bulk : elem[call.bulk[k]].id # None
       /\ \A j, k \in DOMAIN call.bulk : j # k => elem[call.bulk[j]].id # elem[call.bulk[k]].id
       /\ \A k \in DOMAIN call.bulk :
             /\ elem[call.bulk[k]].gmt_modified = elem[call.bulk[1]].gmt_modified
             /\ elem[call.bulk[k]].gmt_modified # NoTime

C8_Witness ==
    /\ call.op = "insert_or_update_batch"
    /\ Len(call.bulk) = 2
    /\ ~autoincrement
    /\ \A k \in DOMAIN call.pre : call.pre[k] = None
    /\ Len(call.outs) >= 2
    /\ call.result = "returned"

\* C9: in an attempt of insert_or_update_batch, if the first element has no
\* id and the schema is not auto-increment, every element ends the attempt
\* with the generated id of its position, whether it had an id or not;
\* otherwise the attempt assigns no id: every element keeps the id it had
\* (the only other change is the key the store gives, on a successful flush
\* under auto-increment, to an element that was pending in the session).
C9_DecisionFromFirstElement ==
    [][(call.pc = "insert_or_update_batch" /\ call'.outs # call.outs) =>
         IF elem[call.bulk[1]].id = None /\ ~autoincrement
         THEN /\ DOMAIN call'.gen = DOMAIN call.bulk
              /\ \A k \in DOMAIN call.bulk : elem'[call.bulk[k]].id = call'.gen[k]
         ELSE /\ call'.gen = <<>>
              /\ \A k \in DOMAIN call.bulk :
                   \/ elem'[call.bulk[k]].id = elem[call.bulk[k]].id
                   \/ /\ autoincrement
                      /\ call.bulk[k] \in pending
                      /\ elem[call.bulk[k]].id = None
                      /\ call'.result = "returned"]_vars

C9_Witness ==
    /\ call.op = "insert_or_update_batch"
    /\ Len(call.bulk) = 2
    /\ ~autoincrement
    /\ Len(call.outs) = 1
    /\ call.pre[1] = None
    /\ call.pre[2] # None
    /\ call.result = "returned"
    /\ elem[call.bulk[2]].id = call.gen[2]
    /\ call.gen[2] # call.pre[2]

\* C10: after a write that completes, gmt_modified of what it wrote is the
\* reading of the clock taken by the attempt that succeeded, which is the
\* latest reading: the datetime of that reading on the entities of
\* insert_or_update and insert_or_update_batch and on their rows, the
\* reading itself on the rows of update_with_attr and update_with_id_list.
\* (The flush of a batch deletes the row of an object that was marked for
\* deletion, so the batch may leave no row for it.)
C10_ModifiedIsTimeOfWrite ==
    /\ (call.op = "insert_or_update" /\ call.result = "returned")
       => /\ call.now = clock - 1
          /\ elem[call.element].gmt_modified = FromTimestamp(call.now)
          /\ RowOf(txn, call.element).gmt_modified = FromTimestamp(call.now)
    /\ (call.op = "insert_or_update_batch" /\ call.bulk # <<>> /\ call.result = "returned")
       => /\ call.now = clock - 1
          /\ \A k \in DOMAIN call.bulk :
                /\ elem[call.bulk[k]].gmt_modified = FromTimestamp(call.now)
                /\ \/ \E r \in txn : /\ r.obj = call.bulk[k]
                                     /\ r.gmt_modified = FromTimestamp(call.now)
                   \/ \A r \in txn : r.obj # call.bulk[k]
    /\ (call.op \in {"update_with_attr", "update_with_id_list"} /\ call.result = "returned")
       => /\ call.now = clock - 1
          /\ \A r \in store : r.id \in call.target => r.gmt_modified = RawTime(call.now)

C10_Witness ==
    /\ call.op = "insert_or_update"
    /\ call.result = "returned"
    /\ Len(call.outs) >= 2
    /\ elem[call.element].gmt_modified = FromTimestamp(clock - 1)
    /\ elem[call.element].gmt_modified # FromTimestamp(clock - Len(call.outs))

\* C11: delete_with_id_list(S) completes; afterwards no row whose id is in
\* S is left and get_in(S) is empty.
C11_DeleteWithIdListDeletes ==
    (call.op = "delete_with_id_list" /\ Finished)
    => /\ call.result = "returned"
       /\ GetIn(txn, call.target) = {}
       /\ GetIn(store, call.target) = {}

\* C12: a step in which update_with_attr, update_with_id_list, delete or
\* delete_with_id_list completes commits the session once, so that the
\* committed rows are the transaction's rows; update_with_attr has changed
\* exactly the rows that match the criterion (possibly none), delete has
\* removed exactly the row of the given entity.
C12_CommittingWritesHitTheirTarget ==
    [][(/\ calls' # calls
        /\ call'.op \in {"update_with_attr", "update_with_id_list", "delete", "delete_with_id_list"}
        /\ call'.result = "returned")
       => /\ call'.commits = 1
          /\ store' = txn'
          /\ pending' = {}
          /\ LET base == FlushTxn(elem, pending, deleted, txn)
             IN CASE call'.op = "update_with_attr" ->
                       /\ \E q \in Ids \cup {None} : call'.target = RowIds(Matching(base, q))
                       /\ store' = {IF r.id \in call'.target
                                    THEN [r EXCEPT !.gmt_modified = RawTime(clock)]
                                    ELSE r : r \in base}
                  [] call'.op = "delete" ->
                       /\ call'.element \in Persistent(txn)
                       /\ call'.element \notin Persistent(store')
                       /\ Persistent(store') = (Persistent(txn) \cup pending) \ {call'.element}
                       /\ Unattached(store') = Unattached(txn)
                  [] OTHER -> GetIn(store', call'.target) = {}]_vars

C12_Witness ==
    /\ call.op = "update_with_attr"
    /\ call.result = "returned"
    /\ call.commits = 1
    /\ call.target # {}
    /\ \E r \in store : r.id \notin call.target /\ r.gmt_modified # RawTime(call.now)
    /\ \E r \in store : r.id \in call.target /\ r.gmt_modified = RawTime(call.now)

\* C14: when insert_or_update or insert_or_update_batch ends with Internal,
\* the call has written exactly one error line to the log; a call never
\* writes more than one, and writes none unless it raises.
C14_OneLogLinePerFatalError ==
    (call.op \in {"insert_or_update", "insert_or_update_batch"})
    => /\ call.logs <= 1
       /\ (call.result = "Internal") <=> (call.logs = 1)

C14_Witness ==
    /\ call.op = "insert_or_update"
    /\ call.result = "Internal"
    /\ BudgetExceeded(call.count)
    /\ call.logs = 1

Max(a, b) == IF a >= b THEN a ELSE b

\* C18: a call of insert_or_update or insert_or_update_batch entered with
\* counter c makes at most max(0, DB_MAX_TRY - c + 1) flush attempts,
\* whatever the store answers, and then ends; entered with c > DB_MAX_TRY
\* (on a non-empty list) it raises Internal and leaves the session as it was.
C18_BoundedRetries ==
    /\ [](call.op \in {"insert_or_update", "insert_or_update_batch"}
             => Len(call.outs) <= Max(0, DB_MAX_TRY - call.start + 1))
    /\ [][(/\ call.pc \in {"insert_or_update", "insert_or_update_batch"}
           /\ call.start > DB_MAX_TRY
           /\ call.op = "insert_or_update_batch" => call.bulk # <<>>)
          => /\ call'.pc = "idle"
             /\ call'.result = "Internal"
             /\ call'.outs = <<>>
             /\ UNCHANGED <<elem, pending, deleted, txn, store, clock>>]_vars
    /\ (call.pc # "idle") ~> (call.pc = "idle")

C18_Witness ==
    /\ call.op = "insert_or_update_batch"
    /\ call.start = 2
    /\ Len(call.outs) = DB_MAX_TRY - 1
    /\ call.result = "Internal"

\* C19: the rollback in the batch handler discards every uncommitted write of
\* the session, those of earlier operations included, so that a commit after
\* a batch call that hit a conflict and then succeeded stores nothing but the
\* committed rows and the batch; insert_or_update never rolls back and keeps
\* every uncommitted write (an object marked for deletion is deleted by its
\* flush).
C19_BatchRollbackDiscardsEarlierWrites ==
    /\ [][call.pc = "insert_or_update_batch_except"
          => /\ txn' = store
             /\ store' = store
             /\ pending' = {}
             /\ deleted' = {}]_vars
    /\ []((call.op = "insert_or_update_batch" /\ call.result = "returned" /\ call.rollbacks > 0)
          => LET durable == SessionCommit(Session).store
             IN \A r \in durable : r \in store \/ InBulk(call.bulk, r.obj))
    /\ [](call.op = "insert_or_update" => call.rollbacks = 0)
    /\ [][call.pc \in {"insert_or_update", "insert_or_update_except"}
          => /\ store' = store
             /\ Unattached(txn) \subseteq txn'
             /\ (Persistent(txn) \ deleted) \cup pending \subseteq Persistent(txn') \cup pending']_vars

\* a batch call returned after a rollback that discarded the flushed row of an
\* object outside the bulk
C19_Witness ==
    /\ call.op = "insert_or_update_batch"
    /\ call.result = "returned"
    /\ call.rollbacks > 0
    /\ call.lost
    /\ \E e \in Elems : ~InBulk(call.bulk, e) /\ e \notin Persistent(txn) /\ elem[e].gmt_modified # NoTime

\* insert_or_update was called on an entity with a caller-supplied id, the
\* first flush failed with a constraint violation and the handler has run
SuppliedIdConflicted ==
    /\ call.op = "insert_or_update"
    /\ call.pre[1] # None
    /\ Len(call.outs) >= 1
    /\ call.outs[1] = "integrity"
    /\ call.pc # "insert_or_update_except"

\* C20 as stated: after a constraint violation on a caller-supplied id the
\* retry starts from id None and generates an id iff the schema is not
\* auto-increment, the call never ends with the entity holding the value of
\* its original id, and on exhaustion the entity has id None.
C20_OriginalIdNeverHeldAgain ==
    SuppliedIdConflicted
    => /\ call.pc = "insert_or_update" => elem[call.element].id = None
       /\ call.gens = IF autoincrement THEN 0 ELSE Len(call.outs) - 1
       /\ Finished => elem[call.element].id # call.pre[1]
       /\ (Finished /\ Conflicts(Len(call.outs)))
             => call.result = "Internal" /\ elem[call.element].id = None

\* C20 (amended): after a constraint violation on a caller-supplied id the
\* retry starts from id None and generates an id iff the schema is not
\* auto-increment; when the call ends, the id of the entity is the one the
\* last retry produced (the generated id, or under auto-increment the key
\* the store assigned, None if that flush failed), whatever its value; on
\* exhaustion the entity has id None.
C20_SuppliedIdDiscarded ==
    SuppliedIdConflicted
    => LET e == call.element
           last == call.outs[Len(call.outs)]
       IN /\ call.pc = "insert_or_update" => elem[e].id = None
          /\ call.gens = IF autoincrement THEN 0 ELSE Len(call.outs) - 1
          /\ (Finished /\ last # "integrity")
                => elem[e].id = IF ~autoincrement THEN call.gen[1]
                                ELSE IF last = "ok" THEN RowOf(txn, e).id
                                ELSE None
          /\ (Finished /\ last = "ok")
                => /\ call.result = "returned"
                   /\ elem[e].id \in Ids
                   /\ \A r \in txn : r.id = elem[e].id => r = RowOf(txn, e)
          /\ (Finished /\ Conflicts(Len(call.outs)))
                => call.result = "Internal" /\ elem[e].id = None

\* the retry after the conflict on a caller-supplied id stored the entity
C20_Witness ==
    /\ SuppliedIdConflicted
    /\ Finished
    /\ call.result = "returned"
    /\ Len(call.outs) = 2
    /\ elem[call.element].id # None

\* the row of object e
StoredUnder(e, t) == {r.id : r \in {x \in t : x.attached /\ x.obj = e}}

\* C13: two sessions running insert_or_update against one store: no two
\* rows, committed or not, ever carry the same id; after a constraint
\* violation a session clears the id, generates a new one (schema not
\* auto-increment) and retries, one more attempt per violation; a call that
\* has ended has either stored its entity under an id no other row carries
\* or raised Internal.
C13_ConcurrentInsertsKeepIdsUnique ==
    /\ \A r1, r2 \in txn \cup store : r1.id = r2.id => r1.obj = r2.obj
    /\ \A s \in Sessions :
          call[s].op = "insert_or_update"
          => LET c == call[s]
                 e == c.element
             IN /\ (c.pc = "insert_or_update" /\ c.outs # <<>>)
                      => /\ c.outs[Len(c.outs)] = "integrity"
                         /\ elem[e].id = None
                         /\ c.count = Len(c.outs) + 1
                /\ (~autoincrement /\ Len(c.outs) >= 1)
                      => c.gens >= Len(c.outs) - 1 /\ (c.pre[1] = None => c.gens = Len(c.outs))
                /\ c.pc = "idle"
                      => \/ /\ c.result = "returned"
                            /\ elem[e].id \in Ids
                            /\ StoredUnder(e, txn) = {elem[e].id}
                            /\ \A r \in txn \cup store : r.id = elem[e].id => r.obj = e
                         \/ c.result = "Internal"

\* both calls have returned; the second session asked for the id the first
\* one holds, met a constraint violation and is stored under another id
C13_Witness ==
    \E s, t \in Sessions :
       /\ s # t
       /\ call[s].op = "insert_or_update" /\ call[s].pc = "idle" /\ call[s].result = "returned"
       /\ call[t].op = "insert_or_update" /\ call[t].pc = "idle" /\ call[t].result = "returned"
       /\ call[t].pre[1] # None
       /\ call[t].outs = <<"integrity", "ok">>
       /\ StoredUnder(call[s].element, txn) = {call[t].pre[1]}
       /\ elem[call[t].element].id # call[t].pre[1]

\* C15: when gmt_modified was given the epoch-seconds value V, to the
\* constructor or by assignment, the field reads as the point in time V and
\* to_dict returns V for it.
C15_TimeFieldRoundTrip ==
    (/\ call.op = "to_dict"
     /\ elem[call.element].how # "none"
     /\ "gmt_modified" \notin Range(call.excluded))
    => LET o == elem[call.element]
           r == call.results[1]
       IN /\ o.attrs["gmt_modified"] = FromTimestamp(o.given)
          /\ r.raised = "none"
          /\ r.output["gmt_modified"] = RawTime(o.given)

\* C16: a dictionary returned by to_dict has no key of the exclusion list,
\* whether or not the key was supplied in added, and has every other added
\* key that is not a column name, with the value given in added.
C16_ToDictExcludesAndAdds ==
    (call.op = "to_dict" /\ call.results[1].raised = "none")
    => LET out == call.results[1].output
           added == call.added.map
       IN /\ \A k \in Range(call.excluded) : k \notin DOMAIN out
          /\ \A k \in DOMAIN added :
                (k \notin Columns /\ k \notin Range(call.excluded))
                   => k \in DOMAIN out /\ out[k] = added[k]

\* the instances of the class in a list, in order
RECURSIVE Instances(_)
Instances(l) ==
    IF l = <<>> THEN <<>>
    ELSE IF IsInstance(Head(l)) THEN <<Head(l)>> \o Instances(Tail(l))
    ELSE Instances(Tail(l))

\* C17: dict_list returns, in order, for each instance of the class in the
\* list what its to_dict gives with the same exclusion list, and nothing for
\* the other elements (stated for lists whose instances to_dict can
\* serialise).
C17_DictListAppliesExclusion ==
    (/\ call.op = "dict_list"
     /\ \A i \in DOMAIN call.list :
           ToDict(elem[call.list[i]].attrs, NoAdded, call.excluded).raised = "none")
    => LET inst == Instances(call.list)
       IN /\ Len(call.results) = Len(inst)
          /\ \A i \in DOMAIN inst :
                /\ call.results[i] = ToDict(elem[inst[i]].attrs, NoAdded, call.excluded)
                /\ \A k \in Range(call.excluded) : k \notin DOMAIN call.results[i].output

====
